---- MODULE Spec2Model ----
(***************************************************************************)
(* The multiplayer race-room server: src/server/index.js (gateway),        *)
(* src/server/GameState.js (registry), src/server/GameRoom.js (room) and    *)
(* src/server/GamePlayer.js (player record).                                *)
(*                                                                         *)
(* Node runs every handler and every timer callback to completion on one   *)
(* thread, so each handler is one atomic action.                            *)
(*                                                                         *)
(* Coordinates are kept in tenths of a world unit (x = -2 is -20), so that  *)
(* the hitbox arithmetic (0.4, 0.6, 0.7, 0.8) stays in the integers.        *)
(* Knockback forces are kept in tenths as well (KNOCKBACK_X * 0.5 is 25).    *)
(*                                                                         *)
(* Spec drives the server through the gateway's socket handlers.  The       *)
(* gateway registers no handler that calls GameRoom.handleAttack, so the    *)
(* room's methods are also driven directly, on one room, by SpecRoom.       *)
(***************************************************************************)
EXTENDS Integers, Sequences, FiniteSets, TLC

\* ---------------------------------------------------------------- bounds
NumSockets == 3
MaxRooms == 2
\* the number of messages and timer callbacks handled in one run
MaxSteps == 7
\* the last reading of Date.now(), in ms after the first one
MaxClock == 500

Sockets == 1..NumSockets
RoomIds == 1..MaxRooms

\* null of the code, for ids, timer handles and times
Null == 0

\* undefined of the code: a field that was never assigned
Undefined == -1

\* the time that passes between two handlers
ClockSteps == {499, 500}

\* the inputs clients report
PosX == {10}
PosY == {50}
States == {"jumping"}
Times == {42000}
AttackX == {0}
AttackY == {50}
Directions == {<<1, 0>>, <<-1, 0>>, <<0, 1>>, <<0, -1>>}

\* ---------------------------------------------------------------- constants
KNOCKBACK_X == 5
KNOCKBACK_Y == 8
HIT_COOLDOWN == 500

VARIABLES
  rooms,        \* GameState.rooms: room id -> GameRoom, for the registered rooms
  roomCounter,  \* GameState.roomCounter
  sockets,      \* per connection: connected, socket.roomId
  ioRooms,      \* socket.io group of each room id: the sockets that joined it
  log,          \* per room id, the countdown/raceStart/gameOver events it emitted
  msg,          \* the inbound message or timer callback handled by the last step
  out,          \* the events emitted by the last step, in order
  steps,        \* the number of messages and timer callbacks handled so far
  now           \* Date.now()

vars == <<rooms, roomCounter, sockets, ioRooms, log, msg, out, steps, now>>

\* ---------------------------------------------------------------- Map helpers
\* A JS Map keeps insertion order; players is a sequence of records keyed by id.
RECURSIVE IndexOf(_, _, _)
IndexOf(ps, id, i) ==
  IF i > Len(ps) THEN 0
  ELSE IF ps[i].id = id THEN i ELSE IndexOf(ps, id, i + 1)

MapHas(ps, id) == IndexOf(ps, id, 1) # 0

MapGet(ps, id) == ps[IndexOf(ps, id, 1)]

MapSet(ps, p) ==
  IF MapHas(ps, p.id) THEN [ps EXCEPT ![IndexOf(ps, p.id, 1)] = p]
  ELSE Append(ps, p)

MapDelete(ps, id) == SelectSeq(ps, LAMBDA p : p.id # id)

PlayerIds(ps) == {ps[i].id : i \in 1..Len(ps)}

\* ---------------------------------------------------------------- GamePlayer
GamePlayer(id, playerNumber) ==
  [id |-> id,
   playerNumber |-> playerNumber,
   x |-> IF playerNumber = 1 THEN -20 ELSE 20,
   y |-> 0,
   state |-> "{}",
   finished |-> FALSE,
   finishTime |-> Null,
   lastHitTime |-> Undefined]

\* player.updatePosition(x, y, state): state || {}
PlayerUpdatePosition(p, x, y, state) ==
  [p EXCEPT !.x = x, !.y = y,
            !.state = IF state = "undefined" THEN "{}" ELSE state]

\* player.finish(time)
PlayerFinish(p, time) == [p EXCEPT !.finished = TRUE, !.finishTime = time]

toJSON(p) ==
  [id |-> p.id, playerNumber |-> p.playerNumber, x |-> p.x, y |-> p.y,
   state |-> p.state, finished |-> p.finished, finishTime |-> p.finishTime]

\* ---------------------------------------------------------------- emissions
\* One emitted event: its name, the room it belongs to, the connections it is
\* delivered to and its payload.
Emit(ev, room, to, data) == [ev |-> ev, room |-> room, to |-> to, data |-> data]

\* io.to(roomId): every socket in the socket.io group of the room
IoTo(grp) == grp

\* socket.to(roomId) and io.to(roomId).except(socketId): the group but the socket
IoToExcept(grp, s) == grp \ {s}

\* ---------------------------------------------------------------- GameRoom
GameRoom(id) ==
  [id |-> id,
   players |-> <<>>,
   state |-> "waiting",
   countdownInterval |-> Null,
   winnerId |-> Null]

isFull(room) == Len(room.players) >= 2

isEmpty(room) == Len(room.players) = 0

\* isAvailable that forgets the state test
isAvailable_NotFull(room) == ~isFull(room)

isAvailable(room) == room.state = "waiting" /\ ~isFull(room)

getPlayersArray(room) == [i \in 1..Len(room.players) |-> toJSON(room.players[i])]

\* clearCountdown that forgets this.countdownInterval = null
clearCountdown_KeepsHandle(room) == room

clearCountdown(room) ==
  IF room.countdownInterval # Null
  THEN [room EXCEPT !.countdownInterval = Null]
  ELSE room

\* startCountdown that forgets setInterval
startCountdown_NoInterval(room, grp) ==
  [room |-> [room EXCEPT !.state = "countdown"],
   out |-> <<Emit("countdown", room.id, IoTo(grp), [count |-> 3])>>]

\* startCountdown(): state, the first countdown event, the interval.
\* A live interval is represented by the count its callback closes over.
startCountdown(room, grp) ==
  [room |-> [room EXCEPT !.state = "countdown", !.countdownInterval = 3],
   out |-> <<Emit("countdown", room.id, IoTo(grp), [count |-> 3])>>]

\* addPlayer that announces the player with io.to() in place of socket.to()
addPlayer_Broadcast(room, s, grp) ==
  LET playerNumber == Len(room.players) + 1
      player == GamePlayer(s, playerNumber)
      r1 == [room EXCEPT !.players = MapSet(room.players, player)]
      joined == <<Emit("playerJoined", room.id, IoTo(grp), toJSON(player))>>
      cd == IF Len(r1.players) = 2
            THEN startCountdown(r1, grp)
            ELSE [room |-> r1, out |-> <<>>]
  IN [room |-> cd.room,
      out |-> joined \o cd.out,
      result |-> [roomId |-> room.id,
                  playerId |-> s,
                  playerNumber |-> playerNumber,
                  startX |-> player.x,
                  players |-> getPlayersArray(cd.room),
                  state |-> cd.room.state]]

\* addPlayer that starts the countdown before it announces the player
addPlayer_CountdownFirst(room, s, grp) ==
  LET playerNumber == Len(room.players) + 1
      player == GamePlayer(s, playerNumber)
      r1 == [room EXCEPT !.players = MapSet(room.players, player)]
      joined == <<Emit("playerJoined", room.id, IoToExcept(grp, s), toJSON(player))>>
      cd == IF Len(r1.players) = 2
            THEN startCountdown(r1, grp)
            ELSE [room |-> r1, out |-> <<>>]
  IN [room |-> cd.room,
      out |-> cd.out \o joined,
      result |-> [roomId |-> room.id,
                  playerId |-> s,
                  playerNumber |-> playerNumber,
                  startX |-> player.x,
                  players |-> getPlayersArray(cd.room),
                  state |-> cd.room.state]]

\* addPlayer(socket); grp is the room's socket.io group after socket.join
addPlayer(room, s, grp) ==
  LET playerNumber == Len(room.players) + 1
      player == GamePlayer(s, playerNumber)
      r1 == [room EXCEPT !.players = MapSet(room.players, player)]
      joined == <<Emit("playerJoined", room.id, IoToExcept(grp, s), toJSON(player))>>
      cd == IF Len(r1.players) = 2
            THEN startCountdown(r1, grp)
            ELSE [room |-> r1, out |-> <<>>]
  IN [room |-> cd.room,
      out |-> joined \o cd.out,
      result |-> [roomId |-> room.id,
                  playerId |-> s,
                  playerNumber |-> playerNumber,
                  startX |-> player.x,
                  players |-> getPlayersArray(cd.room),
                  state |-> cd.room.state]]

\* removePlayer that forgets clearCountdown()
removePlayer_NoClear(room, socketId, grp) ==
  IF ~MapHas(room.players, socketId)
  THEN [room |-> room, out |-> <<>>, empty |-> FALSE]
  ELSE
    LET r1 == [room EXCEPT !.players = MapDelete(room.players, socketId)]
        inProgress == r1.state = "racing" \/ r1.state = "countdown"
        forfeit == inProgress /\ Len(r1.players) > 0
        remainingPlayer == r1.players[1]
        r3 == IF forfeit
              THEN [r1 EXCEPT !.state = "finished",
                              !.winnerId = remainingPlayer.id]
              ELSE r1
        over == IF forfeit
                THEN <<Emit("gameOver", room.id, IoTo(grp),
                            [winnerId |-> remainingPlayer.id,
                             winnerNumber |-> remainingPlayer.playerNumber,
                             reason |-> "opponent_disconnected"])>>
                ELSE <<>>
        left == <<Emit("playerLeft", room.id, IoTo(grp), [id |-> socketId])>>
        r4 == IF r3.state = "waiting"
              THEN [r3 EXCEPT !.players =
                      [i \in 1..Len(r3.players) |->
                         [r3.players[i] EXCEPT !.playerNumber = 1, !.x = -20]]]
              ELSE r3
    IN [room |-> r4, out |-> over \o left, empty |-> Len(r4.players) = 0]

\* removePlayer that declares the departing player the winner
removePlayer_WinnerLeaver(room, socketId, grp) ==
  IF ~MapHas(room.players, socketId)
  THEN [room |-> room, out |-> <<>>, empty |-> FALSE]
  ELSE
    LET player == MapGet(room.players, socketId)
        r1 == [room EXCEPT !.players = MapDelete(room.players, socketId)]
        inProgress == r1.state = "racing" \/ r1.state = "countdown"
        r2 == IF inProgress THEN clearCountdown(r1) ELSE r1
        forfeit == inProgress /\ Len(r2.players) > 0
        r3 == IF forfeit
              THEN [r2 EXCEPT !.state = "finished", !.winnerId = player.id]
              ELSE r2
        over == IF forfeit
                THEN <<Emit("gameOver", room.id, IoTo(grp),
                            [winnerId |-> player.id,
                             winnerNumber |-> player.playerNumber,
                             reason |-> "opponent_disconnected"])>>
                ELSE <<>>
        left == <<Emit("playerLeft", room.id, IoTo(grp), [id |-> socketId])>>
        r4 == IF r3.state = "waiting"
              THEN [r3 EXCEPT !.players =
                      [i \in 1..Len(r3.players) |->
                         [r3.players[i] EXCEPT !.playerNumber = 1, !.x = -20]]]
              ELSE r3
    IN [room |-> r4, out |-> over \o left, empty |-> Len(r4.players) = 0]

\* removePlayer that announces the departure only to players that remain
removePlayer_QuietWhenEmpty(room, socketId, grp) ==
  IF ~MapHas(room.players, socketId)
  THEN [room |-> room, out |-> <<>>, empty |-> FALSE]
  ELSE
    LET r1 == [room EXCEPT !.players = MapDelete(room.players, socketId)]
        inProgress == r1.state = "racing" \/ r1.state = "countdown"
        r2 == IF inProgress THEN clearCountdown(r1) ELSE r1
        forfeit == inProgress /\ Len(r2.players) > 0
        remainingPlayer == r2.players[1]
        r3 == IF forfeit
              THEN [r2 EXCEPT !.state = "finished",
                              !.winnerId = remainingPlayer.id]
              ELSE r2
        over == IF forfeit
                THEN <<Emit("gameOver", room.id, IoTo(grp),
                            [winnerId |-> remainingPlayer.id,
                             winnerNumber |-> remainingPlayer.playerNumber,
                             reason |-> "opponent_disconnected"])>>
                ELSE <<>>
        left == IF Len(r3.players) > 0
                THEN <<Emit("playerLeft", room.id, IoTo(grp), [id |-> socketId])>>
                ELSE <<>>
        r4 == IF r3.state = "waiting"
              THEN [r3 EXCEPT !.players =
                      [i \in 1..Len(r3.players) |->
                         [r3.players[i] EXCEPT !.playerNumber = 1, !.x = -20]]]
              ELSE r3
    IN [room |-> r4, out |-> over \o left, empty |-> Len(r4.players) = 0]

\* removePlayer that only deletes the record and announces the departure
removePlayer_NoForfeit(room, socketId, grp) ==
  IF ~MapHas(room.players, socketId)
  THEN [room |-> room, out |-> <<>>, empty |-> FALSE]
  ELSE
    LET r1 == [room EXCEPT !.players = MapDelete(room.players, socketId)]
    IN [room |-> r1,
        out |-> <<Emit("playerLeft", room.id, IoTo(grp), [id |-> socketId])>>,
        empty |-> Len(r1.players) = 0]

\* removePlayer that declares a forfeit in every state
removePlayer_ForfeitAlways(room, socketId, grp) ==
  IF ~MapHas(room.players, socketId)
  THEN [room |-> room, out |-> <<>>, empty |-> FALSE]
  ELSE
    LET r1 == [room EXCEPT !.players = MapDelete(room.players, socketId)]
        r2 == clearCountdown(r1)
        forfeit == Len(r2.players) > 0
        remainingPlayer == r2.players[1]
        r3 == IF forfeit
              THEN [r2 EXCEPT !.state = "finished",
                              !.winnerId = remainingPlayer.id]
              ELSE r2
        over == IF forfeit
                THEN <<Emit("gameOver", room.id, IoTo(grp),
                            [winnerId |-> remainingPlayer.id,
                             winnerNumber |-> remainingPlayer.playerNumber,
                             reason |-> "opponent_disconnected"])>>
                ELSE <<>>
        left == <<Emit("playerLeft", room.id, IoTo(grp), [id |-> socketId])>>
    IN [room |-> r3, out |-> over \o left, empty |-> Len(r3.players) = 0]

\* removePlayer that puts the room back to waiting after a forfeit
removePlayer_Reopen(room, socketId, grp) ==
  IF ~MapHas(room.players, socketId)
  THEN [room |-> room, out |-> <<>>, empty |-> FALSE]
  ELSE
    LET r1 == [room EXCEPT !.players = MapDelete(room.players, socketId)]
        inProgress == r1.state = "racing" \/ r1.state = "countdown"
        r2 == IF inProgress THEN clearCountdown(r1) ELSE r1
        forfeit == inProgress /\ Len(r2.players) > 0
        remainingPlayer == r2.players[1]
        r3 == IF forfeit
              THEN [r2 EXCEPT !.state = "waiting",
                              !.winnerId = remainingPlayer.id]
              ELSE r2
        over == IF forfeit
                THEN <<Emit("gameOver", room.id, IoTo(grp),
                            [winnerId |-> remainingPlayer.id,
                             winnerNumber |-> remainingPlayer.playerNumber,
                             reason |-> "opponent_disconnected"])>>
                ELSE <<>>
        left == <<Emit("playerLeft", room.id, IoTo(grp), [id |-> socketId])>>
        r4 == IF r3.state = "waiting"
              THEN [r3 EXCEPT !.players =
                      [i \in 1..Len(r3.players) |->
                         [r3.players[i] EXCEPT !.playerNumber = 1, !.x = -20]]]
              ELSE r3
    IN [room |-> r4, out |-> over \o left, empty |-> Len(r4.players) = 0]

\* removePlayer(socketId); grp is the room's socket.io group at the call.
\* empty is the returned value (the room is now empty).
removePlayer(room, socketId, grp) ==
  IF ~MapHas(room.players, socketId)
  THEN [room |-> room, out |-> <<>>, empty |-> FALSE]
  ELSE
    LET r1 == [room EXCEPT !.players = MapDelete(room.players, socketId)]
        inProgress == r1.state = "racing" \/ r1.state = "countdown"
        r2 == IF inProgress THEN clearCountdown(r1) ELSE r1
        forfeit == inProgress /\ Len(r2.players) > 0
        remainingPlayer == r2.players[1]
        r3 == IF forfeit
              THEN [r2 EXCEPT !.state = "finished",
                              !.winnerId = remainingPlayer.id]
              ELSE r2
        over == IF forfeit
                THEN <<Emit("gameOver", room.id, IoTo(grp),
                            [winnerId |-> remainingPlayer.id,
                             winnerNumber |-> remainingPlayer.playerNumber,
                             reason |-> "opponent_disconnected"])>>
                ELSE <<>>
        left == <<Emit("playerLeft", room.id, IoTo(grp), [id |-> socketId])>>
        r4 == IF r3.state = "waiting"
              THEN [r3 EXCEPT !.players =
                      [i \in 1..Len(r3.players) |->
                         [r3.players[i] EXCEPT !.playerNumber = 1, !.x = -20]]]
              ELSE r3
    IN [room |-> r4, out |-> over \o left, empty |-> Len(r4.players) = 0]

\* updatePosition that broadcasts with io.to() in place of socket.to()
updatePosition_Echo(room, socketId, data, grp) ==
  IF ~MapHas(room.players, socketId)
  THEN [room |-> room, out |-> <<>>]
  ELSE
    LET player == PlayerUpdatePosition(MapGet(room.players, socketId),
                                       data.x, data.y, data.state)
    IN [room |-> [room EXCEPT !.players = MapSet(room.players, player)],
        out |-> <<Emit("playerPosition", room.id, IoTo(grp),
                       [id |-> socketId, x |-> data.x, y |-> data.y,
                        velocityY |-> data.velocityY, state |-> data.state])>>]

\* updatePosition(socketId, data)
updatePosition(room, socketId, data, grp) ==
  IF ~MapHas(room.players, socketId)
  THEN [room |-> room, out |-> <<>>]
  ELSE
    LET player == PlayerUpdatePosition(MapGet(room.players, socketId),
                                       data.x, data.y, data.state)
    IN [room |-> [room EXCEPT !.players = MapSet(room.players, player)],
        out |-> <<Emit("playerPosition", room.id, IoToExcept(grp, socketId),
                       [id |-> socketId, x |-> data.x, y |-> data.y,
                        velocityY |-> data.velocityY, state |-> data.state])>>]

\* playerReachedTop that forgets player.finish(time)
playerReachedTop_NoFinish(room, socketId, time, grp) ==
  IF room.state # "racing" THEN [room |-> room, out |-> <<>>]
  ELSE IF ~MapHas(room.players, socketId) THEN [room |-> room, out |-> <<>>]
  ELSE
    LET player == MapGet(room.players, socketId)
    IN [room |-> [room EXCEPT !.state = "finished", !.winnerId = socketId],
        out |-> <<Emit("gameOver", room.id, IoTo(grp),
                       [winnerId |-> socketId,
                        winnerNumber |-> player.playerNumber,
                        winnerTime |-> time,
                        reason |-> "reached_top"])>>]

\* playerReachedTop without the state guard
playerReachedTop_NoGuard(room, socketId, time, grp) ==
  IF ~MapHas(room.players, socketId) THEN [room |-> room, out |-> <<>>]
  ELSE
    LET player == PlayerFinish(MapGet(room.players, socketId), time)
    IN [room |-> [room EXCEPT !.players = MapSet(room.players, player),
                              !.state = "finished",
                              !.winnerId = socketId],
        out |-> <<Emit("gameOver", room.id, IoTo(grp),
                       [winnerId |-> socketId,
                        winnerNumber |-> player.playerNumber,
                        winnerTime |-> time,
                        reason |-> "reached_top"])>>]

\* playerReachedTop(socketId, time)
playerReachedTop(room, socketId, time, grp) ==
  IF room.state # "racing" THEN [room |-> room, out |-> <<>>]
  ELSE IF ~MapHas(room.players, socketId) THEN [room |-> room, out |-> <<>>]
  ELSE
    LET player == PlayerFinish(MapGet(room.players, socketId), time)
    IN [room |-> [room EXCEPT !.players = MapSet(room.players, player),
                              !.state = "finished",
                              !.winnerId = socketId],
        out |-> <<Emit("gameOver", room.id, IoTo(grp),
                       [winnerId |-> socketId,
                        winnerNumber |-> player.playerNumber,
                        winnerTime |-> time,
                        reason |-> "reached_top"])>>]

\* the interval callback testing count >= 0 in place of count > 0
countdownCallback_OffByOne(room, grp) ==
  LET count == room.countdownInterval - 1
      r1 == [room EXCEPT !.countdownInterval = count]
  IN IF count >= 0
     THEN [room |-> r1,
           out |-> <<Emit("countdown", room.id, IoTo(grp), [count |-> count])>>]
     ELSE [room |-> [clearCountdown(r1) EXCEPT !.state = "racing"],
           out |-> <<Emit("raceStart", room.id, IoTo(grp),
                          [timestamp |-> "Date.now()"])>>]

\* the setInterval callback of startCountdown
countdownCallback(room, grp) ==
  LET count == room.countdownInterval - 1
      r1 == [room EXCEPT !.countdownInterval = count]
  IN IF count > 0
     THEN [room |-> r1,
           out |-> <<Emit("countdown", room.id, IoTo(grp), [count |-> count])>>]
     ELSE [room |-> [clearCountdown(r1) EXCEPT !.state = "racing"],
           out |-> <<Emit("raceStart", room.id, IoTo(grp),
                          [timestamp |-> "Date.now()"])>>]

\* The AABB test of handleAttack: the attack box around the reported position
\* offset by 0.8 along the direction, against the victim's body box.
isHit(x, y, direction, player) ==
  LET attackCenterX == IF direction[1] # 0 THEN x + direction[1] * 8 ELSE x
      attackCenterY == IF direction[1] # 0 THEN y ELSE y + direction[2] * 8
      playerLeft == player.x - 4
      playerRight == player.x + 4
      playerBottom == player.y - 7
      playerTop == player.y + 7
      attackLeft == attackCenterX - 4
      attackRight == attackCenterX + 4
      attackBottom == attackCenterY - 6
      attackTop == attackCenterY + 6
  IN /\ attackRight > playerLeft
     /\ attackLeft < playerRight
     /\ attackBottom < playerTop
     /\ attackTop > playerBottom

\* the cooldown test with <= in place of <
onCooldown_Inclusive(player, currentTime) ==
  /\ player.lastHitTime # Undefined
  /\ currentTime - player.lastHitTime <= HIT_COOLDOWN

\* currentTime - player.lastHitTime < HIT_COOLDOWN; the constructor assigns no
\* lastHitTime, and a comparison with currentTime - undefined (NaN) is false
onCooldown(player, currentTime) ==
  /\ player.lastHitTime # Undefined
  /\ currentTime - player.lastHitTime < HIT_COOLDOWN

\* the knockback force with the horizontal push of a vertical attack pointing
\* at the attacker
Knockback_Toward(direction, player, attacker) ==
  LET toward == IF player.x > attacker.x THEN -1 ELSE 1
  IN IF direction[1] # 0
     THEN [x |-> direction[1] * KNOCKBACK_X * 10, y |-> KNOCKBACK_Y * 10]
     ELSE IF direction[2] > 0
     THEN [x |-> toward * KNOCKBACK_X * 5, y |-> KNOCKBACK_Y * 15]
     ELSE [x |-> toward * KNOCKBACK_X * 5, y |-> -(KNOCKBACK_Y * 5)]

\* The knockback force of handleAttack for one hit player, in tenths
Knockback(direction, player, attacker) ==
  LET away == IF player.x > attacker.x THEN 1 ELSE -1
  IN IF direction[1] # 0
     THEN [x |-> direction[1] * KNOCKBACK_X * 10, y |-> KNOCKBACK_Y * 10]
     ELSE IF direction[2] > 0
     THEN [x |-> away * KNOCKBACK_X * 5, y |-> KNOCKBACK_Y * 15]
     ELSE [x |-> away * KNOCKBACK_X * 5, y |-> -(KNOCKBACK_Y * 5)]

\* the loop test without "if (playerId === attackerId) continue"
Struck_Self(player, attackerId, data, currentTime) ==
  /\ ~onCooldown(player, currentTime)
  /\ isHit(data.x, data.y, data.direction, player)

\* The test the loop of handleAttack makes for one player of the room
Struck(player, attackerId, data, currentTime) ==
  /\ player.id # attackerId
  /\ ~onCooldown(player, currentTime)
  /\ isHit(data.x, data.y, data.direction, player)

\* The events of the loop of handleAttack from the i-th player on
RECURSIVE HitEvents(_, _, _, _, _, _)
HitEvents(room, attackerId, data, currentTime, grp, i) ==
  IF i > Len(room.players) THEN <<>>
  ELSE
    LET player == room.players[i]
        attacker == MapGet(room.players, attackerId)
        force == Knockback(data.direction, player, attacker)
        evs == IF Struck(player, attackerId, data, currentTime)
               THEN <<Emit("knockback", room.id, {player.id},
                           [x |-> force.x, y |-> force.y,
                            attackerId |-> attackerId]),
                      Emit("playerHit", room.id, IoTo(grp),
                           [hitPlayerId |-> player.id,
                            attackerId |-> attackerId,
                            direction |-> data.direction])>>
               ELSE <<>>
    IN evs \o HitEvents(room, attackerId, data, currentTime, grp, i + 1)

\* handleAttack without "if (this.state !== 'racing') return"
handleAttack_NoStateGuard(room, attackerId, data, currentTime, grp) ==
  IF ~MapHas(room.players, attackerId) THEN [room |-> room, out |-> <<>>]
  ELSE
    [room |-> [room EXCEPT !.players =
                 [i \in 1..Len(room.players) |->
                    IF Struck(room.players[i], attackerId, data, currentTime)
                    THEN [room.players[i] EXCEPT !.lastHitTime = currentTime]
                    ELSE room.players[i]]],
     out |-> HitEvents(room, attackerId, data, currentTime, grp, 1)]

\* handleAttack(attackerId, data) at Date.now() = currentTime
handleAttack(room, attackerId, data, currentTime, grp) ==
  IF room.state # "racing" THEN [room |-> room, out |-> <<>>]
  ELSE IF ~MapHas(room.players, attackerId) THEN [room |-> room, out |-> <<>>]
  ELSE
    [room |-> [room EXCEPT !.players =
                 [i \in 1..Len(room.players) |->
                    IF Struck(room.players[i], attackerId, data, currentTime)
                    THEN [room.players[i] EXCEPT !.lastHitTime = currentTime]
                    ELSE room.players[i]]],
     out |-> HitEvents(room, attackerId, data, currentTime, grp, 1)]

\* ---------------------------------------------------------------- GameState
\* this.rooms iterates in insertion order, which is the order of the counter.
AvailableRooms(rs) == {r \in DOMAIN rs : isAvailable(rs[r])}

FirstAvailable(rs) ==
  CHOOSE r \in AvailableRooms(rs) : \A q \in AvailableRooms(rs) : r <= q

\* createRoom that numbers the room by the size of the registry
createRoom_SizeId(rs, rc) ==
  LET roomId == Cardinality(DOMAIN rs) + 1
  IN [rooms |-> [r \in DOMAIN rs \cup {roomId} |->
                   IF r = roomId THEN GameRoom(roomId) ELSE rs[r]],
      roomCounter |-> rc + 1,
      id |-> roomId]

createRoom(rs, rc) ==
  LET roomId == rc + 1
  IN [rooms |-> [r \in DOMAIN rs \cup {roomId} |->
                   IF r = roomId THEN GameRoom(roomId) ELSE rs[r]],
      roomCounter |-> rc + 1,
      id |-> roomId]

\* findOrCreateRoom that takes the first room without asking isAvailable()
findOrCreateRoom_First(rs, rc) ==
  IF DOMAIN rs # {}
  THEN [rooms |-> rs, roomCounter |-> rc,
        id |-> CHOOSE r \in DOMAIN rs : \A q \in DOMAIN rs : r <= q]
  ELSE createRoom(rs, rc)

findOrCreateRoom(rs, rc) ==
  IF AvailableRooms(rs) # {}
  THEN [rooms |-> rs, roomCounter |-> rc, id |-> FirstAvailable(rs)]
  ELSE createRoom(rs, rc)

\* removeRoom that forgets this.rooms.delete(roomId)
removeRoom_NoDelete(rs, roomId) == rs

removeRoom(rs, roomId) ==
  IF roomId \in DOMAIN rs
  THEN [r \in DOMAIN rs \ {roomId} |-> rs[r]]
  ELSE rs

cleanupEmptyRooms(rs) ==
  [r \in {q \in DOMAIN rs : ~isEmpty(rs[q])} |-> rs[r]]

\* ---------------------------------------------------------------- gateway
Lifecycle == {"countdown", "raceStart", "gameOver"}

\* The events of evs that room r broadcast as part of its match lifecycle
LifecycleOf(evs, r) ==
  LET keep == SelectSeq(evs, LAMBDA e : e.room = r /\ e.ev \in Lifecycle)
  IN [i \in 1..Len(keep) |-> [ev |-> keep[i].ev, data |-> keep[i].data]]

\* Room ids are never reused, so once a room has left the registry nothing is
\* emitted to its group again: the group and the log of such a room are dropped.
Registered(r, rs, rc) == r \in DOMAIN rs \/ r > rc

Commit(m, rs, rc, ss, io, evs) ==
  /\ steps < MaxSteps
  /\ steps' = steps + 1
  /\ now' = now
  /\ msg' = m
  /\ rooms' = rs
  /\ roomCounter' = rc
  /\ sockets' = ss
  /\ ioRooms' = [r \in RoomIds |-> IF Registered(r, rs, rc) THEN io[r] ELSE {}]
  /\ out' = evs
  /\ log' = [r \in RoomIds |->
               IF Registered(r, rs, rc) THEN log[r] \o LifecycleOf(evs, r) ELSE <<>>]

Message(type, from) == [type |-> type, from |-> from]

\* socket.on("joinGame", callback)
JoinGame(s, hasCallback) ==
  /\ sockets[s].connected
  /\ AvailableRooms(rooms) # {} \/ roomCounter < MaxRooms
  /\ LET found == findOrCreateRoom(rooms, roomCounter)
         id == found.id
         io == [ioRooms EXCEPT ![id] = @ \cup {s}]
         res == addPlayer(found.rooms[id], s, io[id])
         reply == IF hasCallback
                  THEN <<Emit("joinResult", id, {s}, res.result)>>
                  ELSE <<>>
     IN Commit(Message("joinGame", s),
               [found.rooms EXCEPT ![id] = res.room],
               found.roomCounter,
               [sockets EXCEPT ![s].roomId = id],
               io,
               res.out \o reply)

\* socket.on("position", data)
Position(s, data) ==
  /\ sockets[s].connected
  /\ LET id == sockets[s].roomId
         handled == id # Null /\ id \in DOMAIN rooms
         res == updatePosition(rooms[id], s, data, ioRooms[id])
     IN Commit(Message("position", s),
               IF handled THEN [rooms EXCEPT ![id] = res.room] ELSE rooms,
               roomCounter, sockets, ioRooms,
               IF handled THEN res.out ELSE <<>>)

\* socket.on("reachedTop", data): data?.time
ReachedTop(s, time) ==
  /\ sockets[s].connected
  /\ LET id == sockets[s].roomId
         handled == id # Null /\ id \in DOMAIN rooms
         res == playerReachedTop(rooms[id], s, time, ioRooms[id])
     IN Commit(Message("reachedTop", s),
               IF handled THEN [rooms EXCEPT ![id] = res.room] ELSE rooms,
               roomCounter, sockets, ioRooms,
               IF handled THEN res.out ELSE <<>>)

\* handlePlayerLeave without its two early returns: room.removePlayer on an
\* undefined room throws, the uncaught TypeError ends the process and the
\* registry is lost
handlePlayerLeave_NoGuard(m, s, ss, io) ==
  LET id == ss[s].roomId
      found == id # Null /\ id \in DOMAIN rooms
      res == removePlayer(rooms[id], s, io[id])
      after == [rooms EXCEPT ![id] = res.room]
  IN Commit(m,
            IF found
            THEN (IF res.empty THEN removeRoom(after, id) ELSE after)
            ELSE <<>>,
            roomCounter,
            [ss EXCEPT ![s].roomId = Null],
            io,
            IF found THEN res.out ELSE <<>>)

\* handlePlayerLeave(socket), with the socket table ss and the groups io of the call
handlePlayerLeave(m, s, ss, io) ==
  LET id == ss[s].roomId
      found == id # Null /\ id \in DOMAIN rooms
      res == removePlayer(rooms[id], s, io[id])
      after == [rooms EXCEPT ![id] = res.room]
  IN Commit(m,
            IF found
            THEN (IF res.empty THEN removeRoom(after, id) ELSE after)
            ELSE rooms,
            roomCounter,
            [ss EXCEPT ![s].roomId = Null],
            io,
            IF found THEN res.out ELSE <<>>)

\* socket.on("leaveGame")
LeaveGame(s) ==
  /\ sockets[s].connected
  /\ handlePlayerLeave(Message("leaveGame", s), s, sockets, ioRooms)

\* socket.on("disconnect"): socket.io has taken the socket out of every group
\* before the handler runs
Disconnect(s) ==
  /\ sockets[s].connected
  /\ handlePlayerLeave(Message("disconnect", s), s,
                       [sockets EXCEPT ![s].connected = FALSE],
                       [r \in RoomIds |-> ioRooms[r] \ {s}])

\* The client emits "attack"; the gateway registers no handler for it.
Attack(s, data) ==
  /\ sockets[s].connected
  /\ Commit(Message("attack", s), rooms, roomCounter, sockets, ioRooms, <<>>)

\* One firing of a room's countdown interval
CountdownTick(r) ==
  /\ r \in DOMAIN rooms
  /\ rooms[r].countdownInterval # Null
  /\ LET res == countdownCallback(rooms[r], ioRooms[r])
     IN Commit(Message("timer", r),
               [rooms EXCEPT ![r] = res.room],
               roomCounter, sockets, ioRooms, res.out)

\* The five-minute sweep
Cleanup ==
  Commit(Message("cleanup", Null), cleanupEmptyRooms(rooms),
         roomCounter, sockets, ioRooms, <<>>)

PositionData ==
  [x : PosX, y : PosY, velocityY : {0}, state : States]

\* attacks reported from beside, below and above the position PosX, PosY
AimedAttacks ==
  {[x |-> 20, y |-> 50, direction |-> <<-1, 0>>],
   [x |-> 10, y |-> 50, direction |-> <<0, 1>>],
   [x |-> 10, y |-> 50, direction |-> <<0, -1>>]}

AttackData ==
  [x : AttackX, y : AttackY, direction : Directions] \cup AimedAttacks

Init ==
  /\ rooms = <<>>
  /\ roomCounter = 0
  /\ sockets = [s \in Sockets |-> [connected |-> TRUE, roomId |-> Null]]
  /\ ioRooms = [r \in RoomIds |-> {}]
  /\ log = [r \in RoomIds |-> <<>>]
  /\ msg = Message("listen", Null)
  /\ out = <<>>
  /\ steps = 0
  /\ now = 0

Next ==
  \/ \E s \in Sockets, cb \in BOOLEAN : JoinGame(s, cb)
  \/ \E s \in Sockets, data \in PositionData : Position(s, data)
  \/ \E s \in Sockets, time \in Times : ReachedTop(s, time)
  \/ \E s \in Sockets : LeaveGame(s)
  \/ \E s \in Sockets : Disconnect(s)
  \/ \E s \in Sockets, data \in AttackData : Attack(s, data)
  \/ \E r \in RoomIds : CountdownTick(r)
  \/ Cleanup

Spec == Init /\ [][Next]_vars

\* ---------------------------------------------------------------- one room
\* The methods of one GameRoom called directly, with any connection as the
\* caller, and Date.now() advancing between the calls.
RoomCommit(m, room, ss, io, evs) ==
  /\ msg' = m
  /\ rooms' = [rooms EXCEPT ![room.id] = room]
  /\ sockets' = ss
  /\ ioRooms' = io
  /\ out' = evs
  /\ log' = [log EXCEPT ![room.id] = @ \o LifecycleOf(evs, room.id)]
  /\ UNCHANGED <<roomCounter, steps, now>>

\* A call with its argument
Call(type, from, data) == [type |-> type, from |-> from, data |-> data]

\* room.addPlayer(socket), called as the gateway does for an available room
CallAddPlayer(r, s) ==
  /\ isAvailable(rooms[r])
  /\ LET io == [ioRooms EXCEPT ![r] = @ \cup {s}]
         res == addPlayer(rooms[r], s, io[r])
     IN RoomCommit(Message("addPlayer", s), res.room,
                   [sockets EXCEPT ![s].roomId = r], io, res.out)

\* room.removePlayer(socketId)
CallRemovePlayer(r, s) ==
  LET res == removePlayer(rooms[r], s, ioRooms[r])
  IN RoomCommit(Message("removePlayer", s), res.room, sockets, ioRooms, res.out)

\* room.updatePosition(socketId, data)
CallUpdatePosition(r, s, data) ==
  LET res == updatePosition(rooms[r], s, data, ioRooms[r])
  IN RoomCommit(Message("updatePosition", s), res.room, sockets, ioRooms, res.out)

\* room.playerReachedTop(socketId, time)
CallPlayerReachedTop(r, s, time) ==
  LET res == playerReachedTop(rooms[r], s, time, ioRooms[r])
  IN RoomCommit(Message("playerReachedTop", s), res.room, sockets, ioRooms, res.out)

\* room.handleAttack(attackerId, data)
CallHandleAttack(r, s, data) ==
  LET res == handleAttack(rooms[r], s, data, now, ioRooms[r])
  IN RoomCommit(Call("handleAttack", s, data), res.room, sockets, ioRooms, res.out)

\* One firing of the room's countdown interval
RoomTick(r) ==
  /\ rooms[r].countdownInterval # Null
  /\ LET res == countdownCallback(rooms[r], ioRooms[r])
     IN RoomCommit(Message("timer", r), res.room, sockets, ioRooms, res.out)

\* Time passes between two calls
AdvanceClock(d) ==
  /\ now + d <= MaxClock
  /\ now' = now + d
  /\ msg' = Message("clock", Null)
  /\ out' = <<>>
  /\ UNCHANGED <<rooms, roomCounter, sockets, ioRooms, log, steps>>

\* The state after GameState.createRoom() on a new registry
InitRoom ==
  /\ rooms = createRoom(<<>>, 0).rooms
  /\ roomCounter = createRoom(<<>>, 0).roomCounter
  /\ sockets = [s \in Sockets |-> [connected |-> TRUE, roomId |-> Null]]
  /\ ioRooms = [r \in RoomIds |-> {}]
  /\ log = [r \in RoomIds |-> <<>>]
  /\ msg = Message("createRoom", Null)
  /\ out = <<>>
  /\ steps = 0
  /\ now = 0

NextRoom ==
  \/ \E r \in DOMAIN rooms, s \in Sockets : CallAddPlayer(r, s)
  \/ \E r \in DOMAIN rooms, s \in Sockets : CallRemovePlayer(r, s)
  \/ \E r \in DOMAIN rooms, s \in Sockets, data \in PositionData :
       CallUpdatePosition(r, s, data)
  \/ \E r \in DOMAIN rooms, s \in Sockets, time \in Times :
       CallPlayerReachedTop(r, s, time)
  \/ \E r \in DOMAIN rooms, s \in Sockets, data \in AttackData :
       CallHandleAttack(r, s, data)
  \/ \E r \in DOMAIN rooms : RoomTick(r)
  \/ \E d \in ClockSteps : AdvanceClock(d)

SpecRoom == InitRoom /\ [][NextRoom]_vars

\* setInterval keeps firing the callback of a live interval
SpecRoomFair ==
  SpecRoom /\ WF_vars(\E r \in RoomIds : r \in DOMAIN rooms /\ RoomTick(r))

\* ---------------------------------------------------------------- observations
\* The events named ev that the last step emitted for room r
Emitted(evs, ev, r) == SelectSeq(evs, LAMBDA e : e.ev = ev /\ e.room = r)

\* The countdown and raceStart events of a room's log, in order
CountdownPart(l) == SelectSeq(l, LAMBDA e : e.ev \in {"countdown", "raceStart"})

HasRaceStart(l) == \E i \in 1..Len(l) : l[i].ev = "raceStart"

FullCountdown ==
  <<[ev |-> "countdown", data |-> [count |-> 3]],
    [ev |-> "countdown", data |-> [count |-> 2]],
    [ev |-> "countdown", data |-> [count |-> 1]],
    [ev |-> "raceStart", data |-> [timestamp |-> "Date.now()"]]>>

IsPrefix(a, b) == Len(a) <= Len(b) /\ \A i \in 1..Len(a) : a[i] = b[i]

IsLeave(m) == m.type \in {"leaveGame", "disconnect"}

\* The player of room record `room` that is not socket s
OtherPlayer(room, s) ==
  room.players[CHOOSE i \in 1..Len(room.players) : room.players[i].id # s]

\* ---------------------------------------------------------------- C1
\* C1: every registered room holds between 0 and 2 player records, and a
\* joinGame handled while a room holds 2 players is not admitted into that
\* room: the joiner's room is another one and the full room is left as it was.
C1_Capacity ==
  [][/\ \A r \in DOMAIN rooms' : Len(rooms'[r].players) \in 0..2
     /\ \A r \in DOMAIN rooms :
          (msg'.type = "joinGame" /\ Len(rooms[r].players) = 2)
            => /\ sockets'[msg'.from].roomId # r
               /\ r \in DOMAIN rooms'
               /\ rooms'[r] = rooms[r]]_vars

\* A third connection has joined while some room held two other players.
C1_Witness ==
  /\ msg.type = "joinGame"
  /\ \E r \in DOMAIN rooms :
       /\ Len(rooms[r].players) = 2
       /\ msg.from \notin PlayerIds(rooms[r].players)
       /\ sockets[msg.from].roomId \in DOMAIN rooms \ {r}

\* ---------------------------------------------------------------- C2
\* C2: a room that reached 2 players emits countdown 3, 2, 1 in that order,
\* each once, then one raceStart; while no player has been removed its timer
\* is live and stands at the next count, the room is racing exactly when its
\* last lifecycle event is raceStart, and nothing of the countdown follows
\* raceStart.
C2_CountdownOrder ==
  \A r \in DOMAIN rooms :
    LET room == rooms[r]
        cd == CountdownPart(log[r])
    IN /\ IsPrefix(cd, FullCountdown)
       /\ room.state = "waiting" => log[r] = <<>>
       /\ room.state = "countdown"
            => /\ room.countdownInterval \in 1..3
               /\ log[r] = SubSeq(FullCountdown, 1, 4 - room.countdownInterval)
       /\ room.state = "racing" <=> (log[r] = FullCountdown)
       /\ (Len(log[r]) > 0 /\ log[r][Len(log[r])].ev = "raceStart")
            => room.state = "racing"

\* The third tick has just started the race in some room.
C2_Witness ==
  /\ msg.type = "timer"
  /\ msg.from \in DOMAIN rooms
  /\ rooms[msg.from].state = "racing"
  /\ Len(Emitted(out, "raceStart", msg.from)) = 1

\* ---------------------------------------------------------------- C3
\* A room whose countdown was interrupted by a removal
Cancelled(rs, lg, r) ==
  /\ r \in DOMAIN rs
  /\ rs[r].state = "finished"
  /\ ~HasRaceStart(lg[r])

\* C3: removing a player from a room in state countdown cancels the timer in
\* that step; from then on the room emits no countdown and no raceStart event
\* and never enters racing.
C3_CountdownCancelled ==
  [][\A r \in DOMAIN rooms :
       /\ (/\ rooms[r].state = "countdown"
           /\ r \in DOMAIN rooms'
           /\ Len(rooms'[r].players) < Len(rooms[r].players))
            => /\ rooms'[r].countdownInterval = Null
               /\ Cancelled(rooms', log', r)
       /\ (Cancelled(rooms, log, r) /\ r \in DOMAIN rooms')
            => /\ Cancelled(rooms', log', r)
               /\ rooms'[r].countdownInterval = Null
               /\ Emitted(out', "countdown", r) = <<>>
               /\ Emitted(out', "raceStart", r) = <<>>]_vars

\* A player has just been removed from a room that was counting down.
C3_Witness ==
  /\ IsLeave(msg)
  /\ \E r \in DOMAIN rooms :
       /\ Cancelled(rooms, log, r)
       /\ Len(Emitted(out, "gameOver", r)) = 1

\* ---------------------------------------------------------------- C4
\* C4: removing one player from a 2-player room in state racing or countdown
\* broadcasts exactly one gameOver naming the other player (winnerId,
\* winnerNumber) with reason opponent_disconnected; the room becomes finished
\* with winnerId the remaining player.
C4_Forfeit ==
  [][\A s \in Sockets :
       LET r == sockets[s].roomId
       IN (/\ IsLeave(msg') /\ msg'.from = s
           /\ r \in DOMAIN rooms
           /\ MapHas(rooms[r].players, s)
           /\ Len(rooms[r].players) = 2
           /\ rooms[r].state \in {"racing", "countdown"})
            => LET other == OtherPlayer(rooms[r], s)
               IN /\ r \in DOMAIN rooms'
                  /\ rooms'[r].state = "finished"
                  /\ rooms'[r].winnerId = other.id
                  /\ PlayerIds(rooms'[r].players) = {other.id}
                  /\ Emitted(out', "gameOver", r) =
                       <<Emit("gameOver", r, ioRooms'[r],
                              [winnerId |-> other.id,
                               winnerNumber |-> other.playerNumber,
                               reason |-> "opponent_disconnected"])>>
                  /\ sockets[other.id].connected => other.id \in ioRooms'[r]]_vars

\* A player has just left a racing room and the other was declared winner.
C4_Witness ==
  /\ IsLeave(msg)
  /\ \E r \in DOMAIN rooms :
       /\ HasRaceStart(log[r])
       /\ Len(rooms[r].players) = 1
       /\ Len(Emitted(out, "gameOver", r)) = 1
       /\ out[1].data.reason = "opponent_disconnected"

\* ---------------------------------------------------------------- C5
\* C5: a reachedTop report handled while the room is racing and the sender is
\* one of its players marks that player finished with the reported time, sets
\* the state to finished and winnerId to the sender, and emits exactly one
\* gameOver (winnerId, the sender's playerNumber, winnerTime, reached_top) to
\* the room's group, which holds every connected player of the room.
C5_ReachedTop ==
  [][\A s \in Sockets, time \in Times :
       LET r == sockets[s].roomId
       IN (/\ ReachedTop(s, time)
           /\ r \in DOMAIN rooms
           /\ rooms[r].state = "racing"
           /\ MapHas(rooms[r].players, s))
            => LET before == MapGet(rooms[r].players, s)
                   after == MapGet(rooms'[r].players, s)
               IN /\ after = [before EXCEPT !.finished = TRUE, !.finishTime = time]
                  /\ \A i \in 1..Len(rooms[r].players) :
                       rooms[r].players[i].id # s
                         => rooms'[r].players[i] = rooms[r].players[i]
                  /\ rooms'[r].state = "finished"
                  /\ rooms'[r].winnerId = s
                  /\ out' = <<Emit("gameOver", r, ioRooms[r],
                                   [winnerId |-> s,
                                    winnerNumber |-> before.playerNumber,
                                    winnerTime |-> time,
                                    reason |-> "reached_top"])>>
                  /\ \A p \in PlayerIds(rooms[r].players) :
                       sockets[p].connected => p \in out'[1].to]_vars

\* A player has just won a race by reaching the top, with both players connected.
C5_Witness ==
  /\ msg.type = "reachedTop"
  /\ Len(out) = 1
  /\ out[1].ev = "gameOver"
  /\ out[1].data.reason = "reached_top"
  /\ out[1].data.winnerId = msg.from
  /\ Cardinality(out[1].to) = 2
  /\ out[1].to = PlayerIds(rooms[out[1].room].players)

\* ---------------------------------------------------------------- C6
\* C6: a reachedTop report handled for a room already finished emits no
\* gameOver and leaves winnerId, state and every player's finished and
\* finishTime as they were.
C6_FinishIdempotent ==
  [][\A s \in Sockets, time \in Times :
       LET r == sockets[s].roomId
       IN (/\ ReachedTop(s, time)
           /\ r \in DOMAIN rooms
           /\ rooms[r].state = "finished")
            => /\ out' = <<>>
               /\ log' = log
               /\ rooms'[r].winnerId = rooms[r].winnerId
               /\ rooms'[r].state = "finished"
               /\ rooms'[r].players = rooms[r].players]_vars

\* A player of a room that was won by reaching the top has reported reaching
\* the top again, and nothing was emitted.
C6_Witness ==
  /\ msg.type = "reachedTop"
  /\ out = <<>>
  /\ LET r == sockets[msg.from].roomId
     IN /\ r \in DOMAIN rooms
        /\ rooms[r].state = "finished"
        /\ MapHas(rooms[r].players, msg.from)
        /\ log[r][Len(log[r])].data.reason = "reached_top"

\* ---------------------------------------------------------------- C7
\* The rooms created so far that have left the registry
Evicted(rs, rc) == (1..rc) \ DOMAIN rs

ForwardEdges ==
  {<<"waiting", "countdown">>, <<"countdown", "racing">>,
   <<"racing", "finished">>, <<"countdown", "finished">>}

\* C8: a room's state only moves along waiting -> countdown -> racing ->
\* finished, or countdown -> finished: no step takes it backwards or out of
\* finished.
C8_StateForward ==
  [][\A r \in DOMAIN rooms \cap DOMAIN rooms' :
       \/ rooms'[r].state = rooms[r].state
       \/ <<rooms[r].state, rooms'[r].state>> \in ForwardEdges]_vars

\* A join has been handled while a room that ran its whole race sat finished.
C8_Witness ==
  /\ msg.type = "joinGame"
  /\ \E r \in DOMAIN rooms :
       /\ rooms[r].state = "finished"
       /\ HasRaceStart(log[r])
       /\ sockets[msg.from].roomId # r

\* ---------------------------------------------------------------- C9
\* C9: a position update from a player of a finished room leaves every player
\* record of the room (x, y, state) unchanged.
C9_FinishedIgnoresPosition ==
  [][\A s \in Sockets, data \in PositionData :
       LET r == sockets[s].roomId
       IN (/\ Position(s, data)
           /\ r \in DOMAIN rooms
           /\ rooms[r].state = "finished")
            => rooms'[r].players = rooms[r].players]_vars

\* ---------------------------------------------------------------- C10
\* C10: during racing, an attack report from A with direction (1, 0) whose
\* hitbox overlaps B's body box gives B a knockback event with x > 0 and
\* y = KNOCKBACK_Y, and a playerHit event to both A and B.
C10_AttackDispatched ==
  [][\A s \in Sockets, data \in AttackData :
       LET r == sockets[s].roomId
       IN (/\ Attack(s, data)
           /\ data.direction = <<1, 0>>
           /\ r \in DOMAIN rooms
           /\ rooms[r].state = "racing"
           /\ MapHas(rooms[r].players, s)
           /\ isHit(data.x, data.y, data.direction, OtherPlayer(rooms[r], s))
           /\ {s, OtherPlayer(rooms[r], s).id} \subseteq ioRooms[r])
            => LET victim == OtherPlayer(rooms[r], s).id
               IN /\ \E i \in 1..Len(out') :
                       /\ out'[i].ev = "knockback"
                       /\ out'[i].to = {victim}
                       /\ out'[i].data.x > 0
                       /\ out'[i].data.y = KNOCKBACK_Y * 10
                  /\ \E i \in 1..Len(out') :
                       /\ out'[i].ev = "playerHit"
                       /\ {s, victim} \subseteq out'[i].to]_vars

\* ---------------------------------------------------------------- C11
\* The events named ev of evs whose payload field f is v
EmittedFor(evs, ev, f, v) == SelectSeq(evs, LAMBDA e : e.ev = ev /\ e.data[f] = v)

\* The knockback events of evs sent to connection v
KnockbacksTo(evs, v) == SelectSeq(evs, LAMBDA e : e.ev = "knockback" /\ e.to = {v})

\* The step is the call handleAttack(s, data) on a racing room r with s present
AttackHandled(m, rs, r, s, data) ==
  /\ m = Call("handleAttack", s, data)
  /\ rs[r].state = "racing"
  /\ MapHas(rs[r].players, s)

\* C11: for a victim of a racing room, an overlapping attack handled less than
\* HIT_COOLDOWN after the victim's last registered hit produces no knockback
\* and no playerHit and leaves lastHitTime; an overlapping attack handled
\* HIT_COOLDOWN or more after it, or before any hit was registered, produces
\* exactly one knockback/playerHit pair and sets lastHitTime to the time of
\* the call.  lastHitTime is unassigned on a new record and changes only when
\* a hit is registered.
C11_HitCooldown ==
  [][\A r \in DOMAIN rooms :
       /\ (/\ msg'.type = "handleAttack"
           /\ AttackHandled(msg', rooms, r, msg'.from, msg'.data))
              => \A v \in PlayerIds(rooms[r].players) \ {msg'.from} :
                   LET data == msg'.data
                       before == MapGet(rooms[r].players, v)
                       after == MapGet(rooms'[r].players, v)
                       kb == KnockbacksTo(out', v)
                       ph == EmittedFor(out', "playerHit", "hitPlayerId", v)
                   IN isHit(data.x, data.y, data.direction, before)
                        => IF /\ before.lastHitTime # Undefined
                              /\ now - before.lastHitTime < HIT_COOLDOWN
                           THEN /\ kb = <<>>
                                /\ ph = <<>>
                                /\ after.lastHitTime = before.lastHitTime
                           ELSE /\ Len(kb) = 1
                                /\ Len(ph) = 1
                                /\ after.lastHitTime = now
       /\ \A v \in PlayerIds(rooms'[r].players) :
            LET after == MapGet(rooms'[r].players, v)
            IN IF ~MapHas(rooms[r].players, v)
               THEN after.lastHitTime = Undefined
               ELSE after.lastHitTime # MapGet(rooms[r].players, v).lastHitTime
                      => /\ msg'.type = "handleAttack"
                         /\ after.lastHitTime = now
                         /\ Len(KnockbacksTo(out', v)) = 1]_vars

\* An overlapping attack on a victim hit 499 ms earlier has just been handled
\* and nothing was emitted.
C11_Witness ==
  /\ msg.type = "handleAttack"
  /\ out = <<>>
  /\ \E r \in DOMAIN rooms :
       /\ rooms[r].state = "racing"
       /\ MapHas(rooms[r].players, msg.from)
       /\ \E v \in PlayerIds(rooms[r].players) \ {msg.from} :
            LET victim == MapGet(rooms[r].players, v)
            IN /\ isHit(msg.data.x, msg.data.y, msg.data.direction, victim)
               /\ victim.lastHitTime # Undefined
               /\ now - victim.lastHitTime = HIT_COOLDOWN - 1

\* ---------------------------------------------------------------- C12
\* C12: whatever position and direction a handleAttack call reports, it sends
\* no knockback to the attacker, emits no playerHit whose hitPlayerId is the
\* attacker, and leaves the attacker's lastHitTime.
C12_NoSelfHit ==
  [][\A r \in DOMAIN rooms, s \in Sockets :
       (msg'.type = "handleAttack" /\ msg'.from = s)
         => /\ KnockbacksTo(out', s) = <<>>
            /\ EmittedFor(out', "playerHit", "hitPlayerId", s) = <<>>
            /\ MapHas(rooms[r].players, s)
                 => /\ MapHas(rooms'[r].players, s)
                    /\ MapGet(rooms'[r].players, s).lastHitTime =
                         MapGet(rooms[r].players, s).lastHitTime]_vars

\* An attack whose hitbox overlaps the attacker's own body box has just been
\* handled in a racing room: the other player was hit, the attacker was not.
C12_Witness ==
  /\ msg.type = "handleAttack"
  /\ \E r \in DOMAIN rooms :
       /\ rooms[r].state = "racing"
       /\ MapHas(rooms[r].players, msg.from)
       /\ isHit(msg.data.x, msg.data.y, msg.data.direction,
                MapGet(rooms[r].players, msg.from))
       /\ MapGet(rooms[r].players, msg.from).lastHitTime = Undefined
       /\ Len(out) = 2
       /\ out[1].ev = "knockback"
       /\ out[1].to # {msg.from}

\* ---------------------------------------------------------------- C13
\* The events named ev of evs that are delivered to connection s
Received(evs, ev, s) == SelectSeq(evs, LAMBDA e : e.ev = ev /\ s \in e.to)

\* C13: when A joins an empty registry it is answered playerNumber 1,
\* startX -2 and state waiting; when B joins next, A and not B receives one
\* playerJoined describing B, B is answered playerNumber 2, startX 2, state
\* countdown and the players A and B, and both are in the same room.
C13_TwoJoins ==
  [][\A a \in Sockets : \A b \in Sockets \ {a} :
       /\ (rooms = <<>> /\ JoinGame(a, TRUE))
            => LET res == Received(out', "joinResult", a)
               IN /\ Len(res) = 1
                  /\ res[1].data.playerNumber = 1
                  /\ res[1].data.startX = -20
                  /\ res[1].data.state = "waiting"
                  /\ res[1].data.roomId = sockets'[a].roomId
                  /\ rooms'[sockets'[a].roomId].players = <<GamePlayer(a, 1)>>
       /\ (/\ msg = Message("joinGame", a)
           /\ DOMAIN rooms = {sockets[a].roomId}
           /\ rooms[sockets[a].roomId].players = <<GamePlayer(a, 1)>>
           /\ JoinGame(b, TRUE))
            => LET res == Received(out', "joinResult", b)
                   seen == Received(out', "playerJoined", a)
               IN /\ Len(seen) = 1
                  /\ seen[1].data = toJSON(GamePlayer(b, 2))
                  /\ Received(out', "playerJoined", b) = <<>>
                  /\ Len(res) = 1
                  /\ res[1].data.playerNumber = 2
                  /\ res[1].data.startX = 20
                  /\ res[1].data.state = "countdown"
                  /\ res[1].data.players =
                       <<toJSON(GamePlayer(a, 1)), toJSON(GamePlayer(b, 2))>>
                  /\ sockets'[b].roomId = sockets'[a].roomId
                  /\ sockets'[a].roomId = sockets[a].roomId
                  /\ res[1].data.roomId = sockets'[b].roomId]_vars

\* A has joined the empty registry and B has joined next.
C13_Witness ==
  /\ steps = 2
  /\ msg.type = "joinGame"
  /\ Len(Received(out, "joinResult", msg.from)) = 1
  /\ \E r \in DOMAIN rooms :
       /\ Len(rooms[r].players) = 2
       /\ rooms[r].players[2].id = msg.from
       /\ Len(Received(out, "playerJoined", rooms[r].players[1].id)) = 1

\* ---------------------------------------------------------------- C14
\* C14: removePlayer for a present player of a waiting room emits no gameOver
\* and leaves the room waiting with winnerId null; in every state
\* removePlayer for a present player emits exactly one playerLeft, carrying
\* the departing id.
C14_RemoveAnnounced ==
  [][\A r \in DOMAIN rooms, s \in Sockets :
       (msg' = Message("removePlayer", s) /\ MapHas(rooms[r].players, s))
         => /\ Emitted(out', "playerLeft", r) =
                 <<Emit("playerLeft", r, ioRooms[r], [id |-> s])>>
            /\ ~MapHas(rooms'[r].players, s)
            /\ rooms[r].state = "waiting"
                 => /\ Emitted(out', "gameOver", r) = <<>>
                    /\ rooms'[r].state = "waiting"
                    /\ rooms'[r].winnerId = Null]_vars

\* The only player of a waiting room has just been removed.
C14_Witness ==
  /\ msg.type = "removePlayer"
  /\ \E r \in DOMAIN rooms :
       /\ rooms[r].state = "waiting"
       /\ rooms[r].players = <<>>
       /\ rooms[r].winnerId = Null
       /\ out = <<Emit("playerLeft", r, ioRooms[r], [id |-> msg.from])>>

\* ---------------------------------------------------------------- C15
\* C15: the countdown timer handle of a registered room is non-null only while
\* the room's state is countdown, and a room leaves the registry only with a
\* null handle.
C15_TimerOnlyInCountdown ==
  [][/\ \A r \in DOMAIN rooms' :
          rooms'[r].countdownInterval # Null => rooms'[r].state = "countdown"
     /\ \A r \in DOMAIN rooms \ DOMAIN rooms' :
          rooms[r].countdownInterval = Null]_vars

\* A room has just been removed while another one is counting down, its timer
\* live.
C15_Witness ==
  /\ IsLeave(msg)
  /\ Len(out) = 1
  /\ out[1].room \in Evicted(rooms, roomCounter)
  /\ \E r \in DOMAIN rooms :
       /\ rooms[r].state = "countdown"
       /\ rooms[r].countdownInterval # Null

\* ---------------------------------------------------------------- C16
\* The players of a room carry pairwise different player numbers
DistinctNumbers(room) ==
  \A i, j \in 1..Len(room.players) :
    i # j => room.players[i].playerNumber # room.players[j].playerNumber

\* C16: of the join requests handled while a room holds exactly one waiting
\* player, the one admitted to that room becomes its player 2 and fills it, so
\* that every later request is admitted to another room; no two players of a
\* room share a playerNumber.
C16_JoinSerialized ==
  [][\A s \in Sockets :
       msg' = Message("joinGame", s)
         => /\ \A r \in DOMAIN rooms :
                 (/\ rooms[r].state = "waiting"
                  /\ Len(rooms[r].players) = 1
                  /\ sockets'[s].roomId = r)
                   => /\ MapGet(rooms'[r].players, s).playerNumber = 2
                      /\ Len(rooms'[r].players) = 2
                      /\ ~isAvailable(rooms'[r])
            /\ \A r \in DOMAIN rooms' : DistinctNumbers(rooms'[r])]_vars

\* ---------------------------------------------------------------- C17
\* Connection s has no room, or its room is not registered, or it is not among
\* the players of its room
Roomless(ss, rs, s) ==
  \/ ss[s].roomId = Null
  \/ ss[s].roomId \notin DOMAIN rs
  \/ ~MapHas(rs[ss[s].roomId].players, s)

\* C17: a position, reachedTop, leaveGame or disconnect message from a
\* connection that has no room, whose room is not in the registry or that is
\* not a player of its room changes no room and nothing of the registry and
\* emits no event.
C17_RoomlessIgnored ==
  [][\A s \in Sockets :
       (/\ msg'.type \in {"position", "reachedTop", "leaveGame", "disconnect"}
        /\ msg'.from = s
        /\ Roomless(sockets, rooms, s))
         => /\ rooms' = rooms
            /\ roomCounter' = roomCounter
            /\ log' = log
            /\ out' = <<>>]_vars

\* A connection that had left a room which still holds the other player has
\* sent leaveGame a second time.
C17_Witness ==
  /\ msg.type = "leaveGame"
  /\ out = <<>>
  /\ sockets[msg.from].roomId = Null
  /\ \E r \in DOMAIN rooms :
       /\ msg.from \in ioRooms[r]
       /\ ~MapHas(rooms[r].players, msg.from)
       /\ Len(rooms[r].players) = 1

Created(rc) == 1..rc

\* C19: a join is given the earliest-created registered room that is
\* available and then the registry keeps its rooms; when no registered room
\* is available it is given a new, registered room whose id differs from the
\* id of every room created before, removed ones included.
C19_FindOrCreate ==
  [][\A s \in Sockets :
       msg' = Message("joinGame", s)
         => LET id == sockets'[s].roomId
            IN /\ DOMAIN rooms \subseteq Created(roomCounter)
               /\ id \in DOMAIN rooms'
               /\ IF AvailableRooms(rooms) # {}
                  THEN /\ id \in AvailableRooms(rooms)
                       /\ \A q \in AvailableRooms(rooms) : id <= q
                       /\ DOMAIN rooms' = DOMAIN rooms
                       /\ roomCounter' = roomCounter
                  ELSE /\ id \notin Created(roomCounter)
                       /\ Created(roomCounter') = Created(roomCounter) \cup {id}
                       /\ DOMAIN rooms' = DOMAIN rooms \cup {id}
                       /\ \A r \in DOMAIN rooms : rooms'[r] = rooms[r]
                       /\ rooms'[id].players = <<GamePlayer(s, 1)>>]_vars

\* A join has just been given a new room after an earlier room had been
\* removed from the registry.
C19_Witness ==
  /\ msg.type = "joinGame"
  /\ sockets[msg.from].roomId = roomCounter
  /\ rooms[roomCounter].players = <<GamePlayer(msg.from, 1)>>
  /\ Evicted(rooms, roomCounter) # {}

\* ---------------------------------------------------------------- C20
\* C20: handleAttack called on a room that is waiting, counting down or
\* finished, or for an attacker that is not a player of the room, emits
\* nothing (no knockback, no playerHit) and leaves every player's
\* lastHitTime, as the whole room.
C20_AttackIgnored ==
  [][\A r \in DOMAIN rooms, s \in Sockets :
       (/\ msg'.type = "handleAttack"
        /\ msg'.from = s
        /\ rooms[r].state # "racing" \/ ~MapHas(rooms[r].players, s))
         => /\ out' = <<>>
            /\ rooms'[r] = rooms[r]]_vars

\* An attack whose hitbox overlaps the other player has just been handled
\* during the countdown, and nothing was emitted.
C20_Witness ==
  /\ msg.type = "handleAttack"
  /\ out = <<>>
  /\ \E r \in DOMAIN rooms :
       /\ rooms[r].state = "countdown"
       /\ MapHas(rooms[r].players, msg.from)
       /\ \E i \in 1..Len(rooms[r].players) :
            /\ rooms[r].players[i].id # msg.from
            /\ rooms[r].players[i].lastHitTime = Undefined
            /\ isHit(msg.data.x, msg.data.y, msg.data.direction,
                     rooms[r].players[i])

\* ---------------------------------------------------------------- C21
\* The horizontal push of a vertical attack: half of KNOCKBACK_X (in tenths),
\* away from the attacker's stored x; no side is away when the two x are equal
PushedAway(x, victim, attacker) ==
  /\ x \in {KNOCKBACK_X * 5, -(KNOCKBACK_X * 5)}
  /\ victim.x > attacker.x => x > 0
  /\ victim.x < attacker.x => x < 0

\* C21: the knockback of a registered hit goes to the victim only and carries,
\* for a horizontal attack, x = direction.x * KNOCKBACK_X and y = KNOCKBACK_Y;
\* for an upward attack y = 1.5 * KNOCKBACK_Y and for a downward attack
\* y = -0.5 * KNOCKBACK_Y, both with x = +/-0.5 * KNOCKBACK_X pointing away
\* from the attacker's stored x; the playerHit of the hit goes to the room's
\* group, which holds every player of the room, the attacker included.
C21_KnockbackVector ==
  [][\A r \in DOMAIN rooms :
       (/\ msg'.type = "handleAttack"
        /\ AttackHandled(msg', rooms, r, msg'.from, msg'.data))
         => \A i \in 1..Len(out') :
              LET e == out'[i]
                  s == msg'.from
                  d == msg'.data.direction
                  attacker == MapGet(rooms[r].players, s)
              IN /\ e.ev = "knockback"
                      => \E v \in PlayerIds(rooms[r].players) \ {s} :
                           LET victim == MapGet(rooms[r].players, v)
                           IN /\ e.to = {v}
                              /\ e.data.attackerId = s
                              /\ d[1] # 0
                                   => /\ e.data.x = d[1] * KNOCKBACK_X * 10
                                      /\ e.data.y = KNOCKBACK_Y * 10
                              /\ (d[1] = 0 /\ d[2] > 0)
                                   => /\ PushedAway(e.data.x, victim, attacker)
                                      /\ e.data.y = KNOCKBACK_Y * 15
                              /\ (d[1] = 0 /\ d[2] <= 0)
                                   => /\ PushedAway(e.data.x, victim, attacker)
                                      /\ e.data.y = -(KNOCKBACK_Y * 5)
                 /\ e.ev = "playerHit"
                      => /\ e.to = ioRooms[r]
                         /\ PlayerIds(rooms[r].players) \subseteq e.to
                         /\ e.data.attackerId = s
                         /\ e.data.direction = d]_vars

\* An upward attack from below the victim has just registered a hit: the
\* victim alone got the knockback, pushed up and away from the attacker.
C21_Witness ==
  /\ msg.type = "handleAttack"
  /\ msg.data.direction = <<0, 1>>
  /\ Len(out) = 2
  /\ out[1].ev = "knockback"
  /\ out[1].data.y = KNOCKBACK_Y * 15
  /\ out[1].data.x = KNOCKBACK_X * 5
  /\ out[1].to # {msg.from}
  /\ out[2].ev = "playerHit"
  /\ msg.from \in out[2].to

\* ---------------------------------------------------------------- C22
\* The registered rooms whose player map holds connection s
RoomsOf(rs, s) == {r \in DOMAIN rs : MapHas(rs[r].players, s)}

\* C22: a connection is in the player map of at most one registered room, and
\* that room is the one recorded as the connection's room.
C22_OneRoomPerConnection ==
  \A s \in Sockets :
    /\ Cardinality(RoomsOf(rooms, s)) <= 1
    /\ \A r \in RoomsOf(rooms, s) : sockets[s].roomId = r

\* ---------------------------------------------------------------- C23
\* C23: when the disconnect handler of every connection has run, and so that
\* of every connection that ever joined, the registry holds no room.
C23_NoRoomLeftBehind ==
  (\A s \in Sockets : ~sockets[s].connected) => rooms = <<>>

\* ---------------------------------------------------------------- C24
\* The events a room broadcasts to its members
RoomScoped ==
  {"gameOver", "playerLeft", "playerPosition", "countdown", "raceStart",
   "playerHit"}

\* C24: a room-scoped event is delivered only to connections that are players
\* of the room when the handler starts or ends: a connection whose leaveGame
\* has been processed receives nothing more of the room it left.
C24_LeaverHearsNothing ==
  [][\A i \in 1..Len(out') : \A s \in out'[i].to :
       LET r == out'[i].room
       IN out'[i].ev \in RoomScoped
            => \/ MapHas(rooms[r].players, s)
               \/ r \in DOMAIN rooms' /\ MapHas(rooms'[r].players, s)]_vars

\* ---------------------------------------------------------------- C25
\* C25: after every handler at most one registered room is available (waiting
\* with fewer than 2 players).
C25_OneAvailableRoom == Cardinality(AvailableRooms(rooms)) <= 1

\* A leave has just been handled with two rooms registered, one of them
\* available and the other not.
C25_Witness ==
  /\ IsLeave(msg)
  /\ Cardinality(DOMAIN rooms) = 2
  /\ Cardinality(AvailableRooms(rooms)) = 1

\* ---------------------------------------------------------------- C26
\* C26: a registered room in state waiting holds at most 1 player and a room
\* in state countdown or racing holds exactly 2 players; so no removal leaves
\* a counting or racing room with fewer than 2 players, and no removal from a
\* waiting room leaves a player to renumber.
C26_PlayersPerState ==
  \A r \in DOMAIN rooms :
    /\ rooms[r].state = "waiting" => Len(rooms[r].players) <= 1
    /\ rooms[r].state \in {"countdown", "racing"} => Len(rooms[r].players) = 2

\* A player has just left a room in progress, which is finished with the
\* other player, while another room waits with its one player.
C26_Witness ==
  /\ IsLeave(msg)
  /\ \E r, q \in DOMAIN rooms :
       /\ rooms[r].state = "finished"
       /\ Len(rooms[r].players) = 1
       /\ Len(Emitted(out, "playerLeft", r)) = 1
       /\ rooms[q].state = "waiting"
       /\ Len(rooms[q].players) = 1

\* ---------------------------------------------------------------- C27
\* The gameOver events a room has emitted
GameOvers(l) == SelectSeq(l, LAMBDA e : e.ev = "gameOver")

\* C27: a room emits at most one gameOver while it is registered; its winnerId
\* is null exactly while its state is not finished, and once set it never
\* changes.
C27_OneGameOver ==
  [][\A r \in DOMAIN rooms' :
       /\ Len(GameOvers(log'[r])) <= 1
       /\ rooms'[r].winnerId = Null <=> rooms'[r].state # "finished"
       /\ rooms'[r].state = "finished" <=> Len(GameOvers(log'[r])) = 1
       /\ (r \in DOMAIN rooms /\ rooms[r].winnerId # Null)
            => rooms'[r].winnerId = rooms[r].winnerId]_vars

\* The loser of a race won by reaching the top has just left the finished
\* room: no second gameOver, the winner stays.
C27_Witness ==
  /\ IsLeave(msg)
  /\ \E r \in DOMAIN rooms :
       /\ rooms[r].state = "finished"
       /\ PlayerIds(rooms[r].players) = {rooms[r].winnerId}
       /\ Len(GameOvers(log[r])) = 1
       /\ GameOvers(log[r])[1].data.reason = "reached_top"
       /\ out = <<Emit("playerLeft", r, ioRooms[r], [id |-> msg.from])>>

\* ---------------------------------------------------------------- C28
\* C28: the players of a registered room carry pairwise different player
\* numbers, each 1 or 2, and a player alone in a waiting room carries 1.
C28_PlayerNumbers ==
  \A r \in DOMAIN rooms :
    /\ DistinctNumbers(rooms[r])
    /\ \A i \in 1..Len(rooms[r].players) :
         rooms[r].players[i].playerNumber \in {1, 2}
    /\ (rooms[r].state = "waiting" /\ Len(rooms[r].players) = 1)
         => rooms[r].players[1].playerNumber = 1

\* ---------------------------------------------------------------- C29
\* C29: while the interval keeps firing, every room that is counting down
\* eventually is racing or finished.
C29_CountdownEnds ==
  \A r \in RoomIds :
    (r \in DOMAIN rooms /\ rooms[r].state = "countdown")
      ~> (r \in DOMAIN rooms /\ rooms[r].state \in {"racing", "finished"})

\* The third firing of the interval has just taken a counting room to racing.
C29_Witness ==
  \E r \in DOMAIN rooms :
    /\ msg = Message("timer", r)
    /\ rooms[r].state = "racing"
    /\ log[r] = FullCountdown
    /\ rooms[r].countdownInterval = Null

\* ---------------------------------------------------------------- C30
\* C30: the join that admits a room's second player emits, in this order, the
\* playerJoined notification to the first player, the countdown event with
\* count 3 and the join result; the room is counting down when the result is
\* built, and the result says so.
C30_JoinOrder ==
  [][\A s \in Sockets :
       LET r == sockets'[s].roomId
       IN (/\ JoinGame(s, TRUE)
           /\ r \in DOMAIN rooms
           /\ Len(rooms[r].players) = 1
           /\ ~MapHas(rooms[r].players, s))
            => /\ Len(out') = 3
               /\ out'[1].ev = "playerJoined"
               /\ out'[1].room = r
               /\ out'[1].to = {rooms[r].players[1].id}
               /\ out'[2] = Emit("countdown", r, ioRooms'[r], [count |-> 3])
               /\ out'[3].ev = "joinResult"
               /\ out'[3].to = {s}
               /\ out'[3].data.state = "countdown"
               /\ rooms'[r].state = "countdown"]_vars

\* A second player has just been admitted: the first player was told, the
\* countdown began and the joiner was answered.
C30_Witness ==
  /\ msg.type = "joinGame"
  /\ Len(out) = 3
  /\ out[1].ev = "playerJoined"
  /\ out[1].to # {}
  /\ out[2].ev = "countdown"
  /\ out[3].ev = "joinResult"
  /\ out[3].to = {msg.from}
  /\ out[3].data.state = "countdown"

====
